---- MODULE Spec2Model ----
(***************************************************************************)
(* Pubs SQL chat assistant: the SQL synthesizer (sql_generator.py), the    *)
(* query executor (database_client.py), the transcript (chat_interface.py) *)
(* and the request handler that ties them together (app.py).               *)
(*                                                                         *)
(* A Python str is a sequence of one-character strings; a code point       *)
(* outside ASCII, and the backquote, is one element named after its code   *)
(* point ("U+274C", "U+0060").  An Optional value is a sequence of length  *)
(* 0 (None) or 1 (the value).                                              *)
(*                                                                         *)
(* SpecGen, SpecCfg, SpecDb and SpecChat drive one component through its   *)
(* public methods; Spec drives the application's handlers.                 *)
(***************************************************************************)
EXTENDS Integers, Sequences, FiniteSets, TLC

VARIABLES api_key, model, connection_string, messages, clock, provider, calls, last

vars == <<api_key, model, connection_string, messages, clock, provider, calls, last>>

None == <<>>

Some(x) == <<x>>

\* ---------------------------------------------------------------- bounds
MaxChunks == 3

MaxModels == 2

MaxMsgs == 3

MaxTime == 1

MaxRows == 3

MaxCols == 2

\* ------------------------------------------------------- string literals
ERR_PREFIX == <<"E","r","r","o","r",":">>

ERR_UNCONFIGURED == <<"E","r","r","o","r",":"," ","A","P","I"," ","K","e","y"," ","n","o"," ","c","o","n","f","i","g","u","r","a","d","a","."," ","V","e","r","i","f","i","c","a"," ","e","l"," ","a","r","c","h","i","v","o"," ",".","e","n","v">>

ERR_INVALID == <<"E","r","r","o","r",":"," ","C","o","n","s","u","l","t","a"," ","S","Q","L"," ","n","o"," ","v","a'","l","i","d","a"," ","g","e","n","e","r","a","d","a",":"," ">>

ERR_EXC == <<"E","r","r","o","r",":"," ">>

FENCE_SQL == <<"U+0060","U+0060","U+0060","s","q","l">>

FENCE == <<"U+0060","U+0060","U+0060">>

KW_SELECT == <<"S","E","L","E","C","T">>

KW_FROM == <<"F","R","O","M">>

required_keywords == <<KW_SELECT, KW_FROM>>

preferred_models == <<
    <<"g","e","m","i","n","i","-","1",".","5","-","p","r","o">>,
    <<"g","e","m","i","n","i","-","1",".","5","-","f","l","a","s","h">>,
    <<"g","e","m","i","n","i","-","1",".","0","-","p","r","o">>,
    <<"g","e","m","i","n","i","-","p","r","o">> >>

\* ------------------------------------------------------ str operations
Whitespace == {" ", "\n", "\t", "\r"}

LowerCase == <<"a","b","c","d","e","f","g","h","i","j","k","l","m","n","o","p","q","r","s","t","u","v","w","x","y","z">>

UpperCase == <<"A","B","C","D","E","F","G","H","I","J","K","L","M","N","O","P","Q","R","S","T","U","V","W","X","Y","Z">>

\* str.upper(), one character
UpperChar(c) ==
    IF \E i \in 1..Len(LowerCase) : LowerCase[i] = c
    THEN UpperCase[CHOOSE i \in 1..Len(LowerCase) : LowerCase[i] = c]
    ELSE c

\* str.upper()
Upper(s) == [i \in 1..Len(s) |-> UpperChar(s[i])]

\* s.startswith(p)
StartsWith(s, p) == Len(p) <= Len(s) /\ SubSeq(s, 1, Len(p)) = p

\* sub in s
Contains(s, sub) ==
    \E i \in 1..(Len(s) - Len(sub) + 1) : SubSeq(s, i, i + Len(sub) - 1) = sub

\* s.strip()
RECURSIVE LStrip(_)
LStrip(s) == IF s # <<>> /\ Head(s) \in Whitespace THEN LStrip(Tail(s)) ELSE s

RECURSIVE RStrip(_)
RStrip(s) ==
    IF s # <<>> /\ s[Len(s)] \in Whitespace THEN RStrip(SubSeq(s, 1, Len(s) - 1)) ELSE s

Strip(s) == RStrip(LStrip(s))

\* s.replace(old, ""), old non-empty: leftmost non-overlapping occurrences
RECURSIVE Remove(_, _)
Remove(s, old) ==
    IF s = <<>> THEN <<>>
    ELSE IF StartsWith(s, old) THEN Remove(SubSeq(s, Len(old) + 1, Len(s)), old)
    ELSE <<Head(s)>> \o Remove(Tail(s), old)

\* str(n) for n >= 0
Digits == <<"0","1","2","3","4","5","6","7","8","9">>

RECURSIVE IntToStr(_)
IntToStr(n) == IF n < 10 THEN <<Digits[n + 1]>> ELSE IntToStr(n \div 10) \o <<Digits[(n % 10) + 1]>>

RECURSIVE Flatten(_)
Flatten(ss) == IF ss = <<>> THEN <<>> ELSE Head(ss) \o Flatten(Tail(ss))

\* ------------------------------------------------- sql_generator.py
PROMPT_PREGUNTA == <<"P","R","E","G","U","N","T","A",":"," ">>

PROMPT_SQL == <<"\n","S","Q","L",":","\n">>

\* _create_sql_prompt: the template's instruction block and schema text are
\* constant; the part that varies is the line carrying the question.
create_sql_prompt(user_query) == PROMPT_PREGUNTA \o user_query \o PROMPT_SQL

\* is_configured that looks at the key only
gen_is_configured_key_only(k, m) == k # None

\* SQLGenerator.is_configured
gen_is_configured(k, m) == m # None /\ k # None

\* _validate_sql that returns after the first required keyword
validate_sql_first_keyword(sql_query) ==
    IF sql_query = <<>> \/ StartsWith(sql_query, ERR_PREFIX) THEN FALSE
    ELSE Contains(Upper(sql_query), required_keywords[1])

\* SQLGenerator._validate_sql
validate_sql(sql_query) ==
    IF sql_query = <<>> \/ StartsWith(sql_query, ERR_PREFIX) THEN FALSE
    ELSE \A i \in 1..Len(required_keywords) :
            Contains(Upper(sql_query), required_keywords[i])

\* cleaning that strips the fences but not the whitespace they leave behind
clean_reply_no_final_strip(text) == Remove(Remove(Strip(text), FENCE_SQL), FENCE)

\* the cleaning of the provider's reply in generate_sql
clean_reply(text) == Strip(Remove(Remove(Strip(text), FENCE_SQL), FENCE))

\* generate_sql that repeats a failed request once
generate_sql_retry(k, m, natural_language_query, outcome) ==
    IF ~(m # None /\ k # None)
    THEN [ret |-> ERR_UNCONFIGURED, requests |-> <<>>]
    ELSE LET prompt == PROMPT_PREGUNTA \o natural_language_query \o PROMPT_SQL
             sql_query == Strip(Remove(Remove(Strip(outcome.text), FENCE_SQL), FENCE))
         IN  IF outcome.raises
             THEN [ret |-> ERR_EXC \o outcome.msg, requests |-> <<prompt, prompt>>]
             ELSE IF sql_query # <<>> /\ ~StartsWith(sql_query, ERR_PREFIX)
                     /\ Contains(Upper(sql_query), KW_SELECT)
                     /\ Contains(Upper(sql_query), KW_FROM)
                  THEN [ret |-> sql_query, requests |-> <<prompt>>]
                  ELSE [ret |-> ERR_INVALID \o sql_query, requests |-> <<prompt>>]

\* SQLGenerator.generate_sql.  outcome is what the provider does with the one
\* request: it raises (generate_content or response.text) with message msg,
\* or it replies text.  The result carries the returned string and the
\* requests issued, in order.
generate_sql(k, m, natural_language_query, outcome) ==
    IF ~gen_is_configured(k, m)
    THEN [ret |-> ERR_UNCONFIGURED, requests |-> <<>>]
    ELSE LET prompt == create_sql_prompt(natural_language_query)
             sql_query == clean_reply(outcome.text)
         IN  IF outcome.raises
             THEN [ret |-> ERR_EXC \o outcome.msg, requests |-> <<prompt>>]
             ELSE IF validate_sql(sql_query)
                  THEN [ret |-> sql_query, requests |-> <<prompt>>]
                  ELSE [ret |-> ERR_INVALID \o sql_query, requests |-> <<prompt>>]

\* first available model whose name contains preferred, if any
FirstContaining(available_models, preferred) ==
    LET hits == {j \in 1..Len(available_models) : Contains(available_models[j], preferred)}
    IN  IF hits = {} THEN None
        ELSE Some(available_models[CHOOSE j \in hits : \A h \in hits : j <= h])

\* model selection with the loops exchanged: the first available model that
\* contains any preferred name
get_compatible_model_available_first(listing) ==
    LET hits == {j \in 1..Len(listing.models) :
                    \E p \in 1..Len(preferred_models) :
                        Contains(listing.models[j], preferred_models[p])}
    IN  IF listing.raises THEN None
        ELSE IF hits # {}
             THEN Some(listing.models[CHOOSE j \in hits : \A h \in hits : j <= h])
             ELSE IF listing.models # <<>> THEN Some(listing.models[1])
                  ELSE None

\* SQLGenerator._get_compatible_model.  listing is what genai.list_models
\* does: it raises, or it yields the names in models.
RECURSIVE SearchPreferred(_, _)
SearchPreferred(available_models, p) ==
    IF p > Len(preferred_models) THEN None
    ELSE IF FirstContaining(available_models, preferred_models[p]) # None
         THEN FirstContaining(available_models, preferred_models[p])
         ELSE SearchPreferred(available_models, p + 1)

get_compatible_model(listing) ==
    IF listing.raises THEN None
    ELSE IF SearchPreferred(listing.models, 1) # None
         THEN SearchPreferred(listing.models, 1)
         ELSE IF listing.models # <<>> THEN Some(listing.models[1])
              ELSE None

\* SQLGenerator.set_api_key.  configure_raises: genai.configure raises.
set_api_key(m, key, configure_raises, listing) ==
    IF configure_raises
    THEN [api_key |-> Some(key), model |-> m, ret |-> FALSE, error |-> TRUE]
    ELSE LET new == get_compatible_model(listing)
         IN  [api_key |-> Some(key), model |-> new, ret |-> TRUE, error |-> new = None]

\* ------------------------------------------------- database_client.py
\* is_configured without the length test
db_is_configured_not_none(cs) == cs # None

\* DatabaseClient.is_configured
db_is_configured(cs) == cs # None /\ Len(cs[1]) > 0

\* DatabaseClient.execute_query.  db is what the driver does: "connect_fails"
\* (pyodbc.connect raises), "read_fails" (read_sql_query raises) or "ok" with
\* the table read.  connects counts calls of pyodbc.connect, opened the
\* connections they returned, closed the calls of conn.close().
execute_query(cs, sql_query, db) ==
    IF ~db_is_configured(cs)
    THEN [ret |-> None, connects |-> 0, opened |-> 0, closed |-> 0, error |-> TRUE]
    ELSE IF db.kind = "connect_fails"
    THEN [ret |-> None, connects |-> 1, opened |-> 0, closed |-> 0, error |-> TRUE]
    ELSE IF db.kind = "read_fails"
    THEN [ret |-> None, connects |-> 1, opened |-> 1, closed |-> 0, error |-> TRUE]
    ELSE [ret |-> Some(db.table), connects |-> 1, opened |-> 1, closed |-> 1, error |-> FALSE]

\* DatabaseClient.test_connection
test_connection(cs, connect_ok) ==
    IF ~db_is_configured(cs)
    THEN [ret |-> FALSE, connects |-> 0, opened |-> 0, closed |-> 0]
    ELSE IF connect_ok
    THEN [ret |-> TRUE, connects |-> 1, opened |-> 1, closed |-> 1]
    ELSE [ret |-> FALSE, connects |-> 1, opened |-> 0, closed |-> 0]

\* DatabaseClient.set_connection_string
set_connection_string(new, connect_ok) ==
    [connection_string |-> Some(new), probe |-> test_connection(Some(new), connect_ok)]

\* -------------------------------------------------- chat_interface.py
EXPORT_EMPTY == <<"N","o"," ","h","a","y"," ","m","e","n","s","a","j","e","s"," ","p","a","r","a"," ","e","x","p","o","r","t","a","r">>

EXPORT_TITLE == <<"#"," ","H","i","s","t","o","r","i","a","l"," ","d","e"," ","C","h","a","t"," ","-"," ","P","u","b","s"," ","S","Q","L"," ","A","s","s","i","s","t","a","n","t","\n","\n">>

EXPORT_STAMP == <<"E","x","p","o","r","t","a","d","o",":"," ">>

EXPORT_SEP == <<"-","-","-","\n","\n">>

ROLE_USER == <<"U","s","u","a","r","i","o">>

ROLE_ASSISTANT == <<"A","s","s","i","s","t","a","n","t">>

MENSAJE == <<" ","-"," ","M","e","n","s","a","j","e"," ">>

\* datetime.now().isoformat() / .strftime(...): the clock reading as text
isoformat(now) == IntToStr(now)

\* add_message that drops a message repeating the previous one
add_message_dedup(msgs, role, content, now) ==
    IF msgs # <<>> /\ msgs[Len(msgs)].role = role /\ msgs[Len(msgs)].content = content
    THEN msgs
    ELSE Append(msgs, [role |-> role, content |-> content, timestamp |-> IntToStr(now)])

\* ChatInterface.add_message
add_message(msgs, role, content, now) ==
    Append(msgs, [role |-> role, content |-> content, timestamp |-> isoformat(now)])

\* clear_chat that keeps the newest message
clear_chat_keep_newest(msgs) == IF msgs = <<>> THEN <<>> ELSE <<msgs[Len(msgs)]>>

\* ChatInterface.clear_chat
clear_chat(msgs) == <<>>

role_icon(role) == IF role = "user" THEN "U+1F464" ELSE "U+1F916"

role_text(role) == IF role = "user" THEN ROLE_USER ELSE ROLE_ASSISTANT

\* header numbered with enumerate()'s own 0-based index
export_header_zero_based(i, message) ==
    <<"#", "#", " ", role_icon(message.role), " ">> \o role_text(message.role)
        \o MENSAJE \o IntToStr(i) \o <<"\n", "\n">>

\* the header line of export_chat for the message enumerate() numbers i (0-based)
export_header(i, message) ==
    <<"#", "#", " ", role_icon(message.role), " ">> \o role_text(message.role)
        \o MENSAJE \o IntToStr(i + 1) \o <<"\n", "\n">>

\* the loop of export_chat: the pieces added to export_text from message i on
RECURSIVE export_blocks(_, _)
export_blocks(msgs, i) ==
    IF i >= Len(msgs) THEN <<>>
    ELSE << export_header(i, msgs[i + 1]),
            msgs[i + 1].content \o <<"\n", "\n">>,
            EXPORT_SEP >> \o export_blocks(msgs, i + 1)

\* ChatInterface.export_chat: the pieces concatenated into the returned
\* string, in order (the string itself is Flatten of them)
export_chat(msgs, now) ==
    IF msgs = <<>> THEN <<EXPORT_EMPTY>>
    ELSE << EXPORT_TITLE, EXPORT_STAMP \o isoformat(now) \o <<"\n", "\n">> >>
            \o export_blocks(msgs, 0)

\* ------------------------------------------------------------- app.py
MSG_SQL_HEAD == <<"C","o","n","s","u","l","t","a"," ","S","Q","L"," ","g","e","n","e","r","a","d","a",":","\n","U+0060","U+0060","U+0060","s","q","l","\n">>

MSG_SQL_TAIL == <<"\n","U+0060","U+0060","U+0060">>

MSG_NO_KEY == <<"U+274C"," ","P","o","r"," ","f","a","v","o","r",","," ","c","o","n","f","i","g","u","r","a"," ","t","u"," ","A","P","I"," ","K","e","y"," ","d","e"," ","G","o","o","g","l","e"," ","A","I"," ","e","n"," ","e","l"," ","a","r","c","h","i","v","o"," ",".","e","n","v">>

RES_HEAD == <<"R","e","s","u","l","t","a","d","o","s"," ","(">>

RES_FILAS == <<" ","f","i","l","a","s",","," ">>

RES_COLS == <<" ","c","o","l","u","m","n","a","s",")",":","\n">>

\* DataFrame.to_string(max_rows=10): cell values are not modelled, a cell
\* renders as "?" and a row as a line
RECURSIVE to_string_rows(_, _)
to_string_rows(rows, cols) ==
    IF rows = 0 THEN <<>>
    ELSE [c \in 1..cols |-> "?"] \o <<"\n">> \o to_string_rows(rows - 1, cols)

to_string(table) == to_string_rows(IF table.rows > 10 THEN 10 ELSE table.rows, table.cols)

results_text(results) ==
    RES_HEAD \o IntToStr(results.rows) \o RES_FILAS \o IntToStr(results.cols) \o RES_COLS
        \o to_string(results)

\* process_user_input that tests the generated string for emptiness only
process_user_input_no_prefix_test(k, m, cs, user_input, outcome, clicked, db) ==
    LET gen == generate_sql(k, m, user_input, outcome)
        sql_query == gen.ret
        run == execute_query(cs, sql_query, db)
        NoGen == [ret |-> <<>>, requests |-> <<>>]
        NoRun == [ret |-> None, connects |-> 0, opened |-> 0, closed |-> 0, error |-> FALSE]
        user == [role |-> "user", content |-> user_input]
    IN  IF gen_is_configured(k, m)
        THEN IF sql_query # <<>>
             THEN LET shown == [role |-> "assistant",
                                content |-> MSG_SQL_HEAD \o sql_query \o MSG_SQL_TAIL]
                  IN  IF db_is_configured(cs) /\ clicked
                      THEN IF run.ret # None
                           THEN [adds |-> <<user, shown,
                                            [role |-> "assistant", content |-> results_text(run.ret[1])]>>,
                                 gen |-> gen, called_gen |-> TRUE, run |-> run, called_run |-> TRUE,
                                 executed |-> Some(sql_query)]
                           ELSE [adds |-> <<user, shown>>,
                                 gen |-> gen, called_gen |-> TRUE, run |-> run, called_run |-> TRUE,
                                 executed |-> Some(sql_query)]
                      ELSE [adds |-> <<user, shown>>,
                            gen |-> gen, called_gen |-> TRUE, run |-> NoRun, called_run |-> FALSE,
                            executed |-> None]
             ELSE [adds |-> <<user, [role |-> "assistant", content |-> ERR_EXC \o sql_query]>>,
                   gen |-> gen, called_gen |-> TRUE, run |-> NoRun, called_run |-> FALSE,
                   executed |-> None]
        ELSE [adds |-> <<user, [role |-> "assistant", content |-> MSG_NO_KEY]>>,
              gen |-> NoGen, called_gen |-> FALSE, run |-> NoRun, called_run |-> FALSE,
              executed |-> None]

\* PubsSQLChatApp.process_user_input.  clicked: the "Ejecutar Consulta"
\* button reports a click.  The result carries the add_message calls made
\* (role, content), in order, with what the synthesizer and the executor did;
\* executed is the argument of the execute_query call, if one was made.
process_user_input(k, m, cs, user_input, outcome, clicked, db) ==
    LET gen == generate_sql(k, m, user_input, outcome)
        sql_query == gen.ret
        run == execute_query(cs, sql_query, db)
        NoGen == [ret |-> <<>>, requests |-> <<>>]
        NoRun == [ret |-> None, connects |-> 0, opened |-> 0, closed |-> 0, error |-> FALSE]
        user == [role |-> "user", content |-> user_input]
    IN  IF gen_is_configured(k, m)
        THEN IF sql_query # <<>> /\ ~StartsWith(sql_query, ERR_PREFIX)
             THEN LET shown == [role |-> "assistant",
                                content |-> MSG_SQL_HEAD \o sql_query \o MSG_SQL_TAIL]
                  IN  IF db_is_configured(cs) /\ clicked
                      THEN IF run.ret # None
                           THEN [adds |-> <<user, shown,
                                            [role |-> "assistant", content |-> results_text(run.ret[1])]>>,
                                 gen |-> gen, called_gen |-> TRUE, run |-> run, called_run |-> TRUE,
                                 executed |-> Some(sql_query)]
                           ELSE [adds |-> <<user, shown>>,
                                 gen |-> gen, called_gen |-> TRUE, run |-> run, called_run |-> TRUE,
                                 executed |-> Some(sql_query)]
                      ELSE [adds |-> <<user, shown>>,
                            gen |-> gen, called_gen |-> TRUE, run |-> NoRun, called_run |-> FALSE,
                            executed |-> None]
             ELSE [adds |-> <<user, [role |-> "assistant", content |-> ERR_EXC \o sql_query]>>,
                   gen |-> gen, called_gen |-> TRUE, run |-> NoRun, called_run |-> FALSE,
                   executed |-> None]
        ELSE [adds |-> <<user, [role |-> "assistant", content |-> MSG_NO_KEY]>>,
              gen |-> NoGen, called_gen |-> FALSE, run |-> NoRun, called_run |-> FALSE,
              executed |-> None]

\* the add_message calls of one handler applied in order, the j-th at time ts[j]
RECURSIVE add_all(_, _, _)
add_all(msgs, adds, ts) ==
    IF adds = <<>> THEN msgs
    ELSE add_all(add_message(msgs, Head(adds).role, Head(adds).content, Head(ts)),
                 Tail(adds), Tail(ts))

\* ------------------------------------------------------------- inputs
Keys == { <<"A","I","z","a">> }

ConnectionStrings == { <<>>, <<"D","S","N","=","p","u","b","s">>, <<"D","S","N","=","x">> }

\* the connection string of the environment and of the sidebar field
AppConnectionStrings == { <<"D","S","N","=","p","u","b","s">> }

Questions == { <<"q","?">>, <<"A","u","t","o","r","e","s">> }

\* the question typed into the chat input
AppQuestions == { <<"A","u","t","o","r","e","s">> }

ModelNames == {
    <<"m","o","d","e","l","s","/","g","e","m","i","n","i","-","1",".","5","-","p","r","o","-","l","a","t","e","s","t">>,
    <<"m","o","d","e","l","s","/","g","e","m","i","n","i","-","1",".","5","-","f","l","a","s","h">>,
    <<"m","o","d","e","l","s","/","g","e","m","i","n","i","-","1",".","0","-","p","r","o">>,
    <<"m","o","d","e","l","s","/","g","e","m","i","n","i","-","p","r","o","-","v","i","s","i","o","n">>,
    <<"m","o","d","e","l","s","/","e","m","b","e","d","d","i","n","g","-","0","0","1">> }

\* what genai.list_models can do
Listings ==
    { [raises |-> TRUE, models |-> <<>>] } \cup
    { [raises |-> FALSE, models |-> ms] :
        ms \in UNION { [1..n -> ModelNames] : n \in 0..MaxModels } }

Chunks == { <<" ">>, FENCE_SQL, FENCE, KW_SELECT, <<"f","r","o","m">>, ERR_PREFIX, <<"x">> }

DROP_TABLE == <<"D","R","O","P"," ","T","A","B","L","E"," ","a","u","t","h","o","r","s">>

SELECT_THEN_DROP == <<"S","E","L","E","C","T"," ","*"," ","F","R","O","M"," ","a","u","t","h","o","r","s",";"," ","D","R","O","P"," ","T","A","B","L","E"," ","a","u","t","h","o","r","s">>

FixedReplies == {
    DROP_TABLE,
    SELECT_THEN_DROP,
    <<"U+0060","U+0060","U+0060","s","q","l","\n","S","E","L","E","C","T"," ","a","u","_","l","n","a","m","e"," ","F","R","O","M"," ","a","u","t","h","o","r","s","\n","U+0060","U+0060","U+0060">>,
    <<"S","e","l","e","c","t"," ","1"," ","F","r","o","m"," ","t">> }

Replies ==
    { Flatten(cs) : cs \in UNION { [1..n -> Chunks] : n \in 0..MaxChunks } } \cup FixedReplies

ProviderMessages == { <<>>, <<"4","2","9"," ","q","u","o","t","a">> }

\* what the provider can do with one request
Outcomes ==
    { [raises |-> TRUE, text |-> <<>>, msg |-> e] : e \in ProviderMessages } \cup
    { [raises |-> FALSE, text |-> t, msg |-> <<>>] : t \in Replies }

Tables == { [rows |-> r, cols |-> c] : r \in 0..MaxRows, c \in 1..MaxCols }

\* what the database driver can do with one query
DbOutcomes ==
    { [kind |-> "connect_fails", table |-> [rows |-> 0, cols |-> 0]],
      [kind |-> "read_fails", table |-> [rows |-> 0, cols |-> 0]] } \cup
    { [kind |-> "ok", table |-> t] : t \in Tables }

AppDbOutcomes ==
    { [kind |-> "connect_fails", table |-> [rows |-> 0, cols |-> 0]],
      [kind |-> "read_fails", table |-> [rows |-> 0, cols |-> 0]],
      [kind |-> "ok", table |-> [rows |-> 1, cols |-> 2]] }

SqlStrings == FixedReplies \cup { <<>>, <<"S","E","L","E","C","T"," ","1">> }

Roles == {"user", "assistant"}

Contents == { <<>>, <<"h","o","l","a">> }

\* the inputs of the request handler
AppListings ==
    { [raises |-> TRUE, models |-> <<>>], [raises |-> FALSE, models |-> <<>>] } \cup
    { [raises |-> FALSE, models |-> <<nm>>] : nm \in {
        <<"m","o","d","e","l","s","/","g","e","m","i","n","i","-","1",".","5","-","f","l","a","s","h">> } }

AppOutcomes ==
    { [raises |-> TRUE, text |-> <<>>, msg |-> <<"4","2","9"," ","q","u","o","t","a">>],
      [raises |-> FALSE, text |-> <<"U+0060","U+0060","U+0060","s","q","l","\n","S","E","L","E","C","T"," ","1"," ","f","r","o","m"," ","t","U+0060","U+0060","U+0060">>, msg |-> <<>>],
      [raises |-> FALSE, text |-> <<"N","o"," ","p","u","e","d","o">>, msg |-> <<>>] }

\* the clock readings of n successive calls of datetime.now(), from reading c on
Readings(c, n) ==
    { ts \in [1..n -> c..MaxTime] : \A i \in 1..(n - 1) : ts[i] <= ts[i + 1] }

\* ------------------------------------------------------------- state
\* last: the operation that ran last, with its inputs and what it returned
NoLast ==
    [ op |-> "none",
      question |-> <<>>, outcome |-> [raises |-> FALSE, text |-> <<>>, msg |-> <<>>],
      sql |-> <<>>, requests |-> <<>>,
      listing |-> [raises |-> FALSE, models |-> <<>>], ok |-> TRUE, error |-> FALSE,
      df |-> None, connects |-> 0, opened |-> 0, closed |-> 0,
      adds |-> <<>>, called_gen |-> FALSE, called_run |-> FALSE, executed |-> None,
      pieces |-> <<>>, before |-> <<>> ]

Unconstructed ==
    /\ messages = <<>>
    /\ clock = 0
    /\ calls = <<>>
    /\ last = NoLast

\* SQLGenerator.__init__: the key from the environment, if any
InitGenerator ==
    \/ api_key = None /\ model = None
    \/ \E key \in Keys, configure_raises \in BOOLEAN, listing \in AppListings :
         LET r == set_api_key(None, key, configure_raises, listing)
         IN  api_key = r.api_key /\ model = r.model

\* DatabaseClient.__init__: the connection string from the environment, if any
InitClient ==
    \/ connection_string = None
    \/ \E cs \in AppConnectionStrings : connection_string = Some(cs)

Idle == [raises |-> TRUE, text |-> <<>>, msg |-> <<>>]

\* the synthesizer alone, facing each disposition of the provider
InitGen ==
    InitGenerator /\ connection_string = None /\ provider \in Outcomes /\ Unconstructed

\* the synthesizer alone, being configured
InitCfg ==
    InitGenerator /\ connection_string = None /\ provider = Idle /\ Unconstructed

\* the executor alone
InitDb ==
    api_key = None /\ model = None /\ InitClient /\ provider = Idle /\ Unconstructed

\* the transcript alone
InitChat ==
    /\ api_key = None /\ model = None /\ connection_string = None
    /\ provider = Idle /\ Unconstructed

\* the application
Init == InitGenerator /\ InitClient /\ provider \in AppOutcomes /\ Unconstructed

\* ------------------------------------------------------------ actions
\* a call of SQLGenerator.set_api_key
SetApiKeyWith(listings) ==
    \E key \in Keys, configure_raises \in BOOLEAN, listing \in listings :
        LET r == set_api_key(model, key, configure_raises, listing)
        IN  /\ api_key' = r.api_key
            /\ model' = r.model
            /\ last' = [NoLast EXCEPT !.op = "set_api_key", !.listing = listing,
                                      !.ok = r.ret, !.error = r.error]
            /\ UNCHANGED <<connection_string, messages, clock, provider, calls>>

SetApiKey == SetApiKeyWith(Listings)

\* a call of SQLGenerator.generate_sql
GenerateSql ==
    \E question \in Questions :
        LET outcome == provider
            r == generate_sql(api_key, model, question, outcome)
        IN  /\ last' = [NoLast EXCEPT !.op = "generate_sql", !.question = question,
                                      !.outcome = outcome, !.sql = r.ret,
                                      !.requests = r.requests]
            /\ UNCHANGED <<api_key, model, connection_string, messages, clock, provider, calls>>

\* a call of DatabaseClient.set_connection_string
SetConnectionStringWith(strings) ==
    \E new \in strings, connect_ok \in BOOLEAN :
        LET r == set_connection_string(new, connect_ok)
        IN  /\ connection_string' = r.connection_string
            /\ last' = [NoLast EXCEPT !.op = "set_connection_string", !.ok = r.probe.ret,
                                      !.connects = r.probe.connects,
                                      !.opened = r.probe.opened, !.closed = r.probe.closed]
            /\ UNCHANGED <<api_key, model, messages, clock, provider, calls>>

SetConnectionString == SetConnectionStringWith(ConnectionStrings)

\* a call of DatabaseClient.execute_query
ExecuteQuery ==
    \E sql_query \in SqlStrings, db \in DbOutcomes :
        LET r == execute_query(connection_string, sql_query, db)
        IN  /\ last' = [NoLast EXCEPT !.op = "execute_query", !.sql = sql_query,
                                      !.df = r.ret, !.error = r.error,
                                      !.connects = r.connects,
                                      !.opened = r.opened, !.closed = r.closed]
            /\ UNCHANGED <<api_key, model, connection_string, messages, clock, provider, calls>>

\* a call of ChatInterface.add_message
AddMessage ==
    /\ Len(messages) < MaxMsgs
    /\ \E role \in Roles, content \in Contents, now \in clock..MaxTime :
        /\ messages' = add_message(messages, role, content, now)
        /\ clock' = now
        /\ calls' = Append(calls, [role |-> role, content |-> content])
        /\ last' = [NoLast EXCEPT !.op = "add_message", !.before = messages,
                                  !.adds = <<[role |-> role, content |-> content]>>]
        /\ UNCHANGED <<api_key, model, connection_string, provider>>

\* a call of ChatInterface.clear_chat
ClearChat ==
    /\ messages' = clear_chat(messages)
    /\ calls' = <<>>
    /\ last' = [NoLast EXCEPT !.op = "clear_chat"]
    /\ UNCHANGED <<api_key, model, connection_string, clock, provider>>

\* a call of ChatInterface.export_chat
ExportChat ==
    \E now \in clock..MaxTime :
        /\ last' = [NoLast EXCEPT !.op = "export_chat", !.before = messages,
                                  !.pieces = export_chat(messages, now)]
        /\ clock' = IF messages = <<>> THEN clock ELSE now
        /\ UNCHANGED <<api_key, model, connection_string, messages, provider, calls>>

\* a call of PubsSQLChatApp.process_user_input
ProcessUserInput ==
    /\ Len(messages) < MaxMsgs
    /\ \E user_input \in AppQuestions, clicked \in BOOLEAN, db \in AppDbOutcomes :
        LET outcome == provider
            r == process_user_input(api_key, model, connection_string,
                                    user_input, outcome, clicked, db)
        IN  \E ts \in Readings(clock, Len(r.adds)) :
              /\ messages' = add_all(messages, r.adds, ts)
              /\ clock' = ts[Len(r.adds)]
              /\ calls' = calls \o r.adds
              /\ last' = [NoLast EXCEPT !.op = "process_user_input",
                                        !.question = user_input, !.outcome = outcome,
                                        !.before = messages, !.adds = r.adds,
                                        !.called_gen = r.called_gen, !.sql = r.gen.ret,
                                        !.requests = r.gen.requests,
                                        !.called_run = r.called_run, !.executed = r.executed,
                                        !.df = r.run.ret,
                                        !.error = r.run.error,
                                        !.connects = r.run.connects,
                                        !.opened = r.run.opened, !.closed = r.run.closed]
              /\ UNCHANGED <<api_key, model, connection_string, provider>>

\* the provider's disposition changes between requests
ProviderChanges ==
    /\ provider' \in AppOutcomes
    /\ UNCHANGED <<api_key, model, connection_string, messages, clock, calls, last>>

\* the sidebar's manual key and connection-string fields
AppSetApiKey == SetApiKeyWith(AppListings)

AppSetConnectionString == SetConnectionStringWith(AppConnectionStrings)

\* ----------------------------------------------------- specifications
NextGen == AppSetApiKey \/ GenerateSql

NextCfg == SetApiKey

SpecCfg == InitCfg /\ [][NextCfg]_vars

SpecGen == InitGen /\ [][NextGen]_vars

NextDb == SetConnectionString \/ ExecuteQuery

SpecDb == InitDb /\ [][NextDb]_vars

NextChat == AddMessage \/ ClearChat \/ ExportChat

SpecChat == InitChat /\ [][NextChat]_vars

Next ==
    \/ AppSetApiKey
    \/ AppSetConnectionString
    \/ ProviderChanges
    \/ ProcessUserInput
    \/ ClearChat

Spec == Init /\ [][Next]_vars

\* ------------------------------------------------------------- claims
\* kw occurs in s, letter case ignored
ContainsIgnoringCase(s, kw) ==
    \E i \in 1..(Len(s) - Len(kw) + 1) :
        \A j \in 1..Len(kw) : UpperChar(s[i + j - 1]) = UpperChar(kw[j])

IsErrorSentinel(s) == Len(s) >= 6 /\ SubSeq(s, 1, 6) = <<"E","r","r","o","r",":">>

GeneratorConfigured == api_key # None /\ model # None

\* C1: for a non-empty question and any provider outcome, generate_sql returns
\* an error sentinel (a string beginning "Error:") or a string containing both
\* SELECT and FROM case-insensitively; an empty string is never a success.
C1_SqlOrErrorSentinel ==
    (last.op = "generate_sql" /\ last.question # <<>>) =>
        \/ IsErrorSentinel(last.sql)
        \/ /\ last.sql # <<>>
           /\ ContainsIgnoringCase(last.sql, KW_SELECT)
           /\ ContainsIgnoringCase(last.sql, KW_FROM)

\* a success whose FROM is in lower case
C1_Witness ==
    /\ last.op = "generate_sql" /\ last.question # <<>>
    /\ ~IsErrorSentinel(last.sql)
    /\ Contains(last.sql, <<"f","r","o","m">>)

\* C2: with no API key or no model, generate_sql returns the Unconfigured
\* sentinel for any question and issues no request to the provider.
C2_UnconfiguredNoRequest ==
    (last.op = "generate_sql" /\ (api_key = None \/ model = None)) =>
        /\ last.sql = ERR_UNCONFIGURED
        /\ last.requests = <<>>

\* a key was set but no model obtained, and the provider would have answered
C2_Witness ==
    /\ last.op = "generate_sql"
    /\ api_key # None /\ model = None
    /\ ~provider.raises /\ ContainsIgnoringCase(provider.text, KW_SELECT)
    /\ last.sql = ERR_UNCONFIGURED

\* C3: a connection opened by execute_query is closed before it returns, on
\* every path.
C3_ConnectionClosedOnReturn ==
    last.op = "execute_query" => last.closed = last.opened

\* C5 as stated: for every reply, generate_sql returns the cleaned reply
\* exactly when it contains both SELECT and FROM (case-insensitive), and the
\* InvalidSqlShape sentinel carrying the cleaned text otherwise.
C5_AcceptedIffBothKeywords ==
    (last.op = "generate_sql" /\ GeneratorConfigured /\ ~last.outcome.raises) =>
        LET cleaned == clean_reply(last.outcome.text)
        IN  IF ContainsIgnoringCase(cleaned, KW_SELECT) /\ ContainsIgnoringCase(cleaned, KW_FROM)
            THEN last.sql = cleaned
            ELSE last.sql = ERR_INVALID \o cleaned

\* C5 amended: for every reply, generate_sql returns the cleaned reply exactly
\* when it contains both SELECT and FROM (case-insensitive) and does not begin
\* with "Error:", and the InvalidSqlShape sentinel carrying the cleaned text
\* otherwise; "DROP TABLE authors" is rejected and
\* "SELECT * FROM authors; DROP TABLE authors" is accepted.
C5_AcceptedIffKeywordsAndNoErrorPrefix ==
    (last.op = "generate_sql" /\ GeneratorConfigured /\ ~last.outcome.raises) =>
        LET cleaned == clean_reply(last.outcome.text)
        IN  /\ IF /\ ContainsIgnoringCase(cleaned, KW_SELECT)
                  /\ ContainsIgnoringCase(cleaned, KW_FROM)
                  /\ ~IsErrorSentinel(cleaned)
               THEN last.sql = cleaned
               ELSE last.sql = ERR_INVALID \o cleaned
            /\ cleaned = Strip(cleaned)
            /\ ~Contains(cleaned, FENCE)
            /\ last.outcome.text = DROP_TABLE => last.sql = ERR_INVALID \o DROP_TABLE
            /\ last.outcome.text = SELECT_THEN_DROP => last.sql = SELECT_THEN_DROP

\* a reply with both keywords that begins with "Error:" was rejected
C5_Witness ==
    /\ last.op = "generate_sql" /\ GeneratorConfigured /\ ~last.outcome.raises
    /\ IsErrorSentinel(clean_reply(last.outcome.text))
    /\ ContainsIgnoringCase(last.outcome.text, KW_SELECT)
    /\ ContainsIgnoringCase(last.outcome.text, KW_FROM)
    /\ last.sql = ERR_INVALID \o clean_reply(last.outcome.text)

\* C6: with no connection string (None or empty), execute_query returns None
\* for any SQL string and never calls the driver's connect.
C6_UnconfiguredNoConnect ==
    (last.op = "execute_query"
        /\ (connection_string = None \/ connection_string = Some(<<>>))) =>
        /\ last.df = None
        /\ last.connects = 0

\* the connection string was set to the empty string, then a query was tried
C6_Witness ==
    /\ last.op = "execute_query"
    /\ connection_string = Some(<<>>)
    /\ last.sql # <<>>
    /\ last.df = None

\* C4: every error met while handling a user action puts a message for it in
\* the transcript: the Unconfigured notice, the synthesizer's error sentinel
\* (ProviderError, InvalidSqlShape), and, after a triggered execution whose
\* database call fails, a new assistant message following the generated SQL.
C4_EveryErrorInTranscript ==
    last.op = "process_user_input" =>
        /\ messages = last.before \o
              [i \in 1..Len(last.adds) |-> messages[Len(last.before) + i]]
        /\ \A i \in 1..Len(last.adds) :
              /\ messages[Len(last.before) + i].role = last.adds[i].role
              /\ messages[Len(last.before) + i].content = last.adds[i].content
        /\ ~last.called_gen =>
              \E i \in 1..Len(last.adds) :
                  /\ last.adds[i].role = "assistant"
                  /\ Contains(last.adds[i].content, <<"A","P","I"," ","K","e","y">>)
        /\ (last.called_gen /\ IsErrorSentinel(last.sql)) =>
              \E i \in 1..Len(last.adds) :
                  /\ last.adds[i].role = "assistant"
                  /\ Contains(last.adds[i].content, last.sql)
        /\ (last.called_run /\ last.df = None) =>
              \E i \in 3..Len(last.adds) : last.adds[i].role = "assistant"

\* C7: from an empty transcript, N add_message calls leave exactly N messages
\* whose (role, content) are the calls' arguments in call order; an append
\* goes to the end and leaves the earlier messages as they were.
C7_TranscriptIsCallLog ==
    /\ Len(messages) = Len(calls)
    /\ \A i \in 1..Len(calls) :
          messages[i].role = calls[i].role /\ messages[i].content = calls[i].content
    /\ last.op = "add_message" =>
          /\ Len(messages) = Len(last.before) + 1
          /\ \A i \in 1..Len(last.before) : messages[i] = last.before[i]
          /\ messages[Len(messages)].role = last.adds[1].role
          /\ messages[Len(messages)].content = last.adds[1].content

\* three appends, the second repeating the first
C7_Witness ==
    /\ last.op = "add_message"
    /\ Len(messages) = 3
    /\ messages[1].role = messages[2].role
    /\ messages[1].content = messages[2].content
    /\ messages[3].role # messages[2].role

\* the role label export_chat is to print for a message
RoleLabel(message) ==
    IF message.role = "user"
    THEN <<"U","s","u","a","r","i","o">>
    ELSE <<"A","s","s","i","s","t","a","n","t">>

\* the pieces of an export that are role-label headers ("## ... - Mensaje n")
IsHeaderBlock(piece) ==
    /\ Len(piece) >= 3 /\ SubSeq(piece, 1, 3) = <<"#", "#", " ">>
    /\ Contains(piece, <<"M","e","n","s","a","j","e"," ">>)

\* C8: export_chat returns the empty sentinel for an empty transcript; for N
\* messages it emits N role-label headers in transcript order, the i-th with
\* index i (1-based) and the i-th message's role label, each followed by the
\* message's content; the transcript is left unchanged.
C8_ExportBlocks ==
    last.op = "export_chat" =>
        /\ messages = last.before
        /\ IF last.before = <<>>
           THEN Flatten(last.pieces) = EXPORT_EMPTY
           ELSE /\ Len(last.pieces) = 2 + 3 * Len(messages)
                /\ ~IsHeaderBlock(last.pieces[1] \o last.pieces[2])
                /\ \A i \in 1..Len(messages) :
                      /\ IsHeaderBlock(last.pieces[3 * i])
                      /\ Contains(last.pieces[3 * i], <<" ">> \o RoleLabel(messages[i])
                              \o <<" ","-"," ","M","e","n","s","a","j","e"," ">>
                              \o IntToStr(i) \o <<"\n">>)
                      /\ last.pieces[3 * i + 1] = messages[i].content \o <<"\n", "\n">>
                      /\ ~Contains(last.pieces[3 * i + 2], <<"M","e","n","s","a","j","e">>)

\* an export of an assistant message followed by a user message
C8_Witness ==
    /\ last.op = "export_chat"
    /\ Len(messages) >= 2
    /\ messages[1].role = "assistant" /\ messages[2].role = "user"
    /\ Len(last.pieces) > 1

\* C9: set_api_key selects, among the available model names, the first one
\* containing the highest-priority preferred name that any of them contains;
\* with no match, the first available; with none available (or the listing
\* failing) the synthesizer is left without a model and an error is reported.
C9_ModelSelection ==
    (last.op = "set_api_key" /\ last.ok) =>
        LET available == IF last.listing.raises THEN <<>> ELSE last.listing.models
            Matches(p) == {j \in 1..Len(available) : Contains(available[j], preferred_models[p])}
            Matched == {p \in 1..Len(preferred_models) : Matches(p) # {}}
        IN  IF Matched # {}
            THEN \E p \in Matched :
                    \E j \in Matches(p) :
                        /\ \A q \in Matched : p <= q
                        /\ \A h \in Matches(p) : j <= h
                        /\ model = Some(available[j])
                        /\ ~last.error
            ELSE IF available # <<>>
                 THEN model = Some(available[1]) /\ ~last.error
                 ELSE model = None /\ last.error /\ ~GeneratorConfigured

\* the second model listed is taken, for its higher priority
C9_Witness ==
    /\ last.op = "set_api_key" /\ last.ok
    /\ Len(last.listing.models) = 2
    /\ \E p \in 1..Len(preferred_models) : Contains(last.listing.models[1], preferred_models[p])
    /\ model = Some(last.listing.models[2])
    /\ model # Some(last.listing.models[1])

\* C10: a submitted question causes at most one request to the provider,
\* carrying the question; when the provider fails, generate_sql returns
\* "Error: " followed by the underlying message and nothing is retried.
C10_OneRequestNoRetry ==
    last.op = "process_user_input" =>
        /\ Len(last.requests) <= 1
        /\ last.called_gen = (Len(last.requests) = 1)
        /\ \A i \in 1..Len(last.requests) : Contains(last.requests[i], last.question)
        /\ (last.called_gen /\ last.outcome.raises) =>
              /\ last.sql = <<"E","r","r","o","r",":"," ">> \o last.outcome.msg
              /\ Len(last.requests) = 1

\* the provider failed on the one request of a submitted question
C10_Witness ==
    /\ last.op = "process_user_input"
    /\ last.called_gen /\ last.outcome.raises
    /\ last.outcome.msg # <<>>
    /\ Len(last.requests) = 1

\* C11: process_user_input calls the executor only with the string that
\* generate_sql returned as a success for the current question (non-empty, not
\* beginning "Error:", containing SELECT and FROM) and only when the executor
\* is configured; after an Unconfigured, ProviderError or InvalidSqlShape
\* outcome of the synthesizer execute_query is not reached.
C11_ExecutorOnlyAfterSuccess ==
    last.op = "process_user_input" =>
        /\ last.called_run = (last.executed # None)
        /\ last.called_run =>
              /\ last.called_gen /\ GeneratorConfigured
              /\ last.executed = Some(last.sql)
              /\ ~last.outcome.raises
              /\ last.sql = clean_reply(last.outcome.text)
              /\ last.sql # <<>>
              /\ ~IsErrorSentinel(last.sql)
              /\ ContainsIgnoringCase(last.sql, KW_SELECT)
              /\ ContainsIgnoringCase(last.sql, KW_FROM)
              /\ connection_string # None
              /\ connection_string # Some(<<>>)
        /\ (~last.called_gen \/ IsErrorSentinel(last.sql)) =>
              /\ ~last.called_run
              /\ last.connects = 0

\* the run button was clicked on a generated query and the executor ran it
C11_Witness ==
    /\ last.op = "process_user_input"
    /\ last.called_run
    /\ last.executed # None
    /\ last.connects = 1
    /\ Len(last.adds) = 3

\* C12: a completed process_user_input appends one user message carrying the
\* question, then one or more assistant messages (the generated SQL and
\* possibly a results summary, or a single error message); so after any
\* submits and clears the transcript is empty, or begins with a user message,
\* ends with an assistant message and has no two adjacent user messages.
C12_TranscriptShape ==
    /\ last.op = "process_user_input" =>
          /\ Len(messages) = Len(last.before) + Len(last.adds)
          /\ \A i \in 1..Len(last.before) : messages[i] = last.before[i]
          /\ \A i \in 1..Len(last.adds) :
                /\ messages[Len(last.before) + i].role = last.adds[i].role
                /\ messages[Len(last.before) + i].content = last.adds[i].content
          /\ Len(last.adds) \in {2, 3}
          /\ last.adds[1].role = "user"
          /\ last.adds[1].content = last.question
          /\ \A i \in 2..Len(last.adds) : last.adds[i].role = "assistant"
          /\ IsErrorSentinel(last.adds[2].content) => Len(last.adds) = 2
          /\ Len(last.adds) = 3 =>
                /\ Contains(last.adds[2].content, last.sql)
                /\ last.df # None
    /\ messages # <<>> =>
          /\ messages[1].role = "user"
          /\ messages[Len(messages)].role = "assistant"
          /\ \A i \in 1..(Len(messages) - 1) :
                ~(messages[i].role = "user" /\ messages[i + 1].role = "user")

\* a second question, whose query was run, submitted after a first
C12_Witness ==
    /\ last.op = "process_user_input"
    /\ Len(last.before) = 2
    /\ Len(messages) = 5
    /\ messages[2].role = "assistant"
    /\ messages[3].role = "user"

====
